---- MODULE Spec2Model ----
(***************************************************************************)
(* A model of bananadbg.py: the command registry of DebugConsole and its   *)
(* subclasses, argument checking, the raw_input read loop, and the cd, ls  *)
(* and pwd commands with the special help variable.                        *)
(*                                                                         *)
(* Python strings are sequences of one-character strings, so that          *)
(* shlex.split, str.upper and importlib.util.resolve_name are computed     *)
(* and not assumed.  "__main__" is kept as one indivisible piece.          *)
(***************************************************************************)
EXTENDS Integers, Sequences, FiniteSets, TLC

VARIABLES
    commands,     \* class name -> its own 'commands' attribute, or NoLayer
    regError,     \* what the last call of DebugConsole.command raised
    pc,           \* where the program is: setup, prompt, eval, more, done, aborted
    verbose,      \* console.verbose
    modulename,   \* console.modulename
    module,       \* console.module
    helpOf,       \* module handle -> what the name 'help' is bound to there
    out,          \* what the last step printed on sys.stdout (lines)
    err,          \* what the last step printed on sys.stderr (lines)
    last,         \* the last step of the read loop and how it ended
    consoleclass, \* the consoleclass argument of debug()
    stringlist,   \* the argument of a call of _print_list
    termwidth     \* shutil.get_terminal_size().columns at that call

vars == <<commands, regError, pc, verbose, modulename, module, helpOf, out, err, last,
          consoleclass, stringlist, termwidth>>
listVars == <<stringlist, termwidth>>
regVars == <<commands, regError>>
sessionVars == <<pc, verbose, modulename, module, helpOf, out, err, last>>

None == "None"

(***************************************************************************)
(* Strings.                                                                *)
(***************************************************************************)
\* str.upper on one character
UpperChar(c) ==
    CASE c = "a" -> "A" [] c = "b" -> "B" [] c = "c" -> "C" [] c = "d" -> "D"
      [] c = "e" -> "E" [] c = "g" -> "G" [] c = "h" -> "H" [] c = "l" -> "L"
      [] c = "m" -> "M" [] c = "n" -> "N" [] c = "o" -> "O" [] c = "p" -> "P"
      [] c = "r" -> "R" [] c = "s" -> "S" [] c = "t" -> "T" [] c = "u" -> "U"
      [] c = "w" -> "W" [] c = "x" -> "X" [] c = "y" -> "Y"
      [] OTHER -> c

\* arg.upper()
Upper(s) == [i \in 1..Len(s) |-> UpperChar(s[i])]

ValueError == "ValueError"
TypeError == "TypeError"
\* the result of a call that returns tokens or raises
Raised(exc) == [raised |-> exc, tokens |-> <<>>]
Returned(tokens) == [raised |-> None, tokens |-> tokens]

RECURSIVE SplitFrom(_, _, _, _, _, _)
\* shlex.split(string) for strings of letters, dots, spaces and single
\* quotes: the tokens, or ValueError when a quotation is not closed.
SplitFrom(s, i, cur, inTok, inQuote, acc) ==
    IF i > Len(s)
    THEN IF inQuote THEN Raised(ValueError)
         ELSE IF inTok THEN Returned(Append(acc, cur)) ELSE Returned(acc)
    ELSE LET c == s[i] IN
         IF inQuote
         THEN IF c = "'"
              THEN SplitFrom(s, i + 1, cur, TRUE, FALSE, acc)
              ELSE SplitFrom(s, i + 1, Append(cur, c), TRUE, TRUE, acc)
         ELSE IF c = " "
              THEN IF inTok
                   THEN SplitFrom(s, i + 1, <<>>, FALSE, FALSE, Append(acc, cur))
                   ELSE SplitFrom(s, i + 1, <<>>, FALSE, FALSE, acc)
              ELSE IF c = "'"
                   THEN SplitFrom(s, i + 1, cur, TRUE, TRUE, acc)
                   ELSE SplitFrom(s, i + 1, Append(cur, c), TRUE, FALSE, acc)

shlex_split(s) == SplitFrom(s, 1, <<>>, FALSE, FALSE, <<>>)

(***************************************************************************)
(* The classes and the handler functions given to DebugConsole.command.    *)
(***************************************************************************)
DebugConsole == "DebugConsole"
Mid == "Mid"      \* class Mid(DebugConsole)
Leaf == "Leaf"    \* class Leaf(Mid)
Classes == {DebugConsole, Mid, Leaf}

\* the base class of a class (None for DebugConsole, whose own base classes
\* have no 'commands' attribute)
BaseOf(cls) == CASE cls = Leaf -> Mid [] cls = Mid -> DebugConsole [] OTHER -> None

POSITIONAL_OR_KEYWORD == "POSITIONAL_OR_KEYWORD"
VAR_POSITIONAL == "VAR_POSITIONAL"
KEYWORD_ONLY == "KEYWORD_ONLY"

Param(name, kind, hasDefault) == [name |-> name, kind |-> kind, default |-> hasDefault]
ConsoleParam == Param(<<"c","o","n","s","o","l","e">>, POSITIONAL_OR_KEYWORD, FALSE)

cdName == <<"c","d">>
lsName == <<"l","s">>
pwdName == <<"p","w","d">>
goName == <<"g","o">>
upName == <<"u","p">>
kwName == <<"k","w">>

\* def cd(console, modulename='__main__')
cdFunc == [id |-> "cd", name |-> cdName, doc |-> "Change the current module.",
           params |-> <<ConsoleParam,
                        Param(<<"m","o","d","u","l","e","n","a","m","e">>, POSITIONAL_OR_KEYWORD, TRUE)>>]
\* def ls(console)
lsFunc == [id |-> "ls", name |-> lsName, doc |-> "Print a list of variables in the current module.",
           params |-> <<ConsoleParam>>]
\* def pwd(console)
pwdFunc == [id |-> "pwd", name |-> pwdName, doc |-> "Print the name of the current module.",
            params |-> <<ConsoleParam>>]

\* Handlers of a program that uses the module:
\* def go(console, to, by='x')
goFunc == [id |-> "go", name |-> goName, doc |-> None,
           params |-> <<ConsoleParam,
                        Param(<<"t","o">>, POSITIONAL_OR_KEYWORD, FALSE),
                        Param(<<"b","y">>, POSITIONAL_OR_KEYWORD, TRUE)>>]
\* another def go(console), given to a subclass
goFunc2 == [id |-> "go2", name |-> goName, doc |-> "Go.",
            params |-> <<ConsoleParam>>]
\* def cd(console, to), a subclass's own cd
cdFunc2 == [id |-> "cd2", name |-> cdName, doc |-> None,
            params |-> <<ConsoleParam, Param(<<"t","o">>, POSITIONAL_OR_KEYWORD, FALSE)>>]
\* def up(console, *names)
upFunc == [id |-> "up", name |-> upName, doc |-> None,
           params |-> <<ConsoleParam, Param(<<"n","a","m","e","s">>, VAR_POSITIONAL, FALSE)>>]

\* def kw(console, a, *, b)
kwFunc == [id |-> "kw", name |-> kwName, doc |-> None,
           params |-> <<ConsoleParam,
                        Param(<<"a">>, POSITIONAL_OR_KEYWORD, FALSE),
                        Param(<<"b">>, KEYWORD_ONLY, FALSE)>>]

BuiltinFuncs == {cdFunc, lsFunc, pwdFunc}
UserFuncs == {goFunc, goFunc2, cdFunc2, upFunc, kwFunc}
CommandNames == {cdName, lsName, pwdName, goName, upName, kwName}

(***************************************************************************)
(* The registry: the class attribute 'commands'.                           *)
(***************************************************************************)
NoLayer == [has |-> FALSE]     \* 'commands' not in cls.__dict__
NoCmd == [func |-> "NoCmd"]    \* the key is not in the mapping
KeyError == [func |-> "KeyError"]    \* mapping[key] raised KeyError
\* a mapping object: its own entries, and for a ChainMap the class that
\* holds the mapping it is chained to
Layer(own, parent) == [has |-> TRUE, own |-> own, parent |-> parent]

EmptyMap == [n \in CommandNames |-> NoCmd]

\* Command = collections.namedtuple('Command', 'func reqargs optargs doc')
Command(func, reqargs, optargs, doc) ==
    [func |-> func, reqargs |-> reqargs, optargs |-> optargs, doc |-> doc]

RECURSIVE OwnerOf(_, _)
\* The class whose __dict__ holds the object that cls.commands evaluates to.
OwnerOf(cmds, cls) ==
    IF cmds[cls].has THEN cls ELSE OwnerOf(cmds, BaseOf(cls))

\* dict.get(name, NoCmd) on a class's own entries
MapGet(own, name) == IF name \in DOMAIN own THEN own[name] ELSE NoCmd

RECURSIVE LayerGet(_, _, _)
\* mapping[name] on the 'commands' object held by class owner: a dict for
\* DebugConsole, a ChainMap({}, parent object) for a subclass.
LayerGet(cmds, owner, name) ==
    IF MapGet(cmds[owner].own, name) # NoCmd THEN cmds[owner].own[name]
    ELSE IF cmds[owner].parent = None THEN KeyError
    ELSE LayerGet(cmds, cmds[owner].parent, name)

\* cls.commands[name] (also self.commands[name] on an instance of cls)
Lookup(cmds, cls, name) == LayerGet(cmds, OwnerOf(cmds, cls), name)

\* sorted(cls.commands.items()): the names that are keys, with their commands
AllOf(cmds, cls) ==
    {<<n, Lookup(cmds, cls, n)>> : n \in {m \in CommandNames : Lookup(cmds, cls, m) # KeyError}}

\* the command names in the order sorted() gives them
SortedNames == <<cdName, goName, kwName, lsName, pwdName, upName>>

\* list(own): the keys of a class's own entries (sorted() follows, so they
\* are given in sorted order)
OwnKeys(own) ==
    LET IsKey(n) == own[n] # NoCmd IN SelectSeq(SortedNames, IsKey)

RECURSIVE KeysOf(_, _)
\* list(mapping) on the 'commands' object held by class owner; for a
\* ChainMap, d = {}; d.update(dict.fromkeys(parent)); d.update(dict.fromkeys(own))
KeysOf(cmds, owner) ==
    IF cmds[owner].parent = None THEN OwnKeys(cmds[owner].own)
    ELSE LET below == KeysOf(cmds, cmds[owner].parent)
             IsNew(n) == \A i \in 1..Len(below) : below[i] # n
         IN  below \o SelectSeq(OwnKeys(cmds[owner].own), IsNew)

RECURSIVE SortFrom(_, _)
\* sorted(keys): the keys equal to the j-th name, then those after it
SortFrom(keys, j) ==
    IF j > Len(SortedNames) THEN <<>>
    ELSE LET Is(k) == k = SortedNames[j]
         IN  SelectSeq(keys, Is) \o SortFrom(keys, j + 1)

\* sorted(cls.commands.items()), the listing help() prints
Items(cmds, cls) ==
    LET keys == SortFrom(KeysOf(cmds, OwnerOf(cmds, cls)), 1)
    IN  [i \in 1..Len(keys) |-> <<keys[i], Lookup(cmds, cls, keys[i])>>]

\* EnsureLayer without the ChainMap: the subclass keeps using the mapping it
\* inherits
EnsureLayerShared(cmds, cls) == cmds

\* the first step of command(): give cls its own mapping when it has none
EnsureLayer(cmds, cls) ==
    IF ~cmds[cls].has
    THEN [cmds EXCEPT ![cls] = Layer(EmptyMap, OwnerOf(cmds, cls))]
    ELSE cmds

\* the parameters after the console instance
ParamsOf(func) == SubSeq(func.params, 2, Len(func.params))

\* SignatureOk looking at the first parameter after the console only
SignatureOkFirstOnly(func) ==
    ParamsOf(func) = <<>> \/ ParamsOf(func)[1].kind = POSITIONAL_OR_KEYWORD

\* lines 183-186: every parameter after the console is POSITIONAL_OR_KEYWORD
SignatureOk(func) ==
    \A i \in 1..Len(ParamsOf(func)) : ParamsOf(func)[i].kind = POSITIONAL_OR_KEYWORD

RECURSIVE SelectNames(_, _)
\* the names of the parameters with (or without) a default, in order
SelectNames(params, withDefault) ==
    IF params = <<>> THEN <<>>
    ELSE IF Head(params).default = withDefault
         THEN <<Head(params).name>> \o SelectNames(Tail(params), withDefault)
         ELSE SelectNames(Tail(params), withDefault)

ReqArgs(func) == SelectNames(ParamsOf(func), FALSE)
OptArgs(func) == SelectNames(ParamsOf(func), TRUE)

\* StoreCommand as cls.commands.setdefault(func.__name__, Command(...))
StoreCommandKeepFirst(cmds, cls, func) ==
    IF MapGet(cmds[OwnerOf(cmds, cls)].own, func.name) # NoCmd THEN cmds
    ELSE [cmds EXCEPT ![OwnerOf(cmds, cls)].own[func.name] =
             Command(func.id, ReqArgs(func), OptArgs(func), func.doc)]

\* cls.commands[func.__name__] = Command(func, reqargs, optargs, func.__doc__)
StoreCommand(cmds, cls, func) ==
    [cmds EXCEPT ![OwnerOf(cmds, cls)].own[func.name] =
        Command(func.id, ReqArgs(func), OptArgs(func), func.doc)]

\* DebugConsole.command as a function of the registry
CommandResult(cmds, cls, func) ==
    LET c1 == EnsureLayer(cmds, cls) IN
    IF SignatureOk(func)
    THEN [commands |-> StoreCommand(c1, cls, func), raised |-> None]
    ELSE [commands |-> c1, raised |-> TypeError]

\* what the class statement of DebugConsole and _setup_commands() leave
InitialCommands ==
    LET c0 == [cls \in Classes |->
                 IF cls = DebugConsole THEN Layer(EmptyMap, None) ELSE NoLayer]
        c1 == CommandResult(c0, DebugConsole, cdFunc).commands
        c2 == CommandResult(c1, DebugConsole, lsFunc).commands
    IN  CommandResult(c2, DebugConsole, pwdFunc).commands

\* DebugConsole.command(func) called on class cls
Register(cls, func) ==
    LET r == CommandResult(commands, cls, func) IN
    /\ commands' = r.commands
    /\ regError' = r.raised

(***************************************************************************)
(* _check_args.                                                            *)
(***************************************************************************)
RECURSIVE UsageArgsAsDeclared(_, _)
\* UsageArgs without .upper()
UsageArgsAsDeclared(names, bracket) ==
    IF names = <<>> THEN <<>>
    ELSE (IF bracket
          THEN <<" ", "[">> \o Head(names) \o <<"]">>
          ELSE <<" ">> \o Head(names))
         \o UsageArgsAsDeclared(Tail(names), bracket)

RECURSIVE UsageArgs(_, _)
\* the pieces ' ARG' (required) or ' [ARG]' (optional), one per name
UsageArgs(names, bracket) ==
    IF names = <<>> THEN <<>>
    ELSE (IF bracket
          THEN <<" ", "[">> \o Upper(Head(names)) \o <<"]">>
          ELSE <<" ">> \o Upper(Head(names)))
         \o UsageArgs(Tail(names), bracket)

\* lines 135-140: print("Usage:", commandname, end='') and what follows
UsageLine(commandname, command) ==
    <<"Usage:", " ">> \o commandname
        \o UsageArgs(command.reqargs, FALSE) \o UsageArgs(command.optargs, TRUE)

\* the stream lines 135-140 print to
UsageStream == "stdout"

\* ArgsFit without the 'Too many arguments' branch
ArgsFitLowerOnly(command, args) == ~(Len(args) < Len(command.reqargs))

\* whether the argument count passes
ArgsFit(command, args) ==
    /\ ~(Len(args) < Len(command.reqargs))
    /\ ~(Len(args) > Len(command.reqargs) + Len(command.optargs))

\* self._check_args(commandname, args) on a console of class cls:
\* what it raises, what it returns and what it prints
check_args(cmds, cls, commandname, args) ==
    LET command == Lookup(cmds, cls, commandname) IN
    IF command = KeyError
    THEN [raised |-> "KeyError", ok |-> FALSE, out |-> <<>>, err |-> <<>>]
    ELSE IF ArgsFit(command, args)
    THEN [raised |-> None, ok |-> TRUE, out |-> <<>>, err |-> <<>>]
    ELSE LET first == IF Len(args) < Len(command.reqargs)
                      THEN <<"Missing arguments for ">> \o commandname \o <<".">>
                      ELSE <<"Too many arguments for ">> \o commandname \o <<".">>
             usage == UsageLine(commandname, command)
         IN [raised |-> None, ok |-> FALSE,
             out |-> IF UsageStream = "stdout" THEN <<usage>> ELSE <<>>,
             err |-> IF UsageStream = "stdout" THEN <<first>> ELSE <<first, usage>>]

(***************************************************************************)
(* Modules, their names and the special help variable.                     *)
(***************************************************************************)
NoName == <<>>          \* console.modulename is None (no module is named '')
mainName == <<"__main__">>
rName == <<"r">>
rsName == <<"r", ".", "s">>
qName == <<"q">>        \* a module whose import calls sys.exit()

mainModule == "module __main__"
rModule == "module r"
rsModule == "module r.s"
Modules == {mainModule, rModule, rsModule}

ImportError == "ImportError"
ModuleNotFoundError == "ModuleNotFoundError"
SystemExit == "SystemExit"
KeyboardInterrupt == "KeyboardInterrupt"
EOFError == "EOFError"
Exception == "Exception"

\* isinstance(exc, Exception): what 'except Exception' catches
IsException(exc) == exc \notin {None, SystemExit, KeyboardInterrupt}

NoBinding == "NoBinding"    \* 'help' not in module.__dict__
helper == "helper"          \* console._helper
userValue == "userValue"    \* any other object

\* the number of dots a string starts with
RECURSIVE LeadingDots(_)
LeadingDots(name) ==
    IF name # <<>> /\ Head(name) = "." THEN 1 + LeadingDots(Tail(name)) ELSE 0

\* the number of dots in a string
RECURSIVE Dots(_)
Dots(name) ==
    IF name = <<>> THEN 0
    ELSE (IF Head(name) = "." THEN 1 ELSE 0) + Dots(Tail(name))

\* a dotted name without its last component (and the dot before it)
RECURSIVE DropLast(_)
DropLast(name) ==
    IF name = <<>> THEN <<>>
    ELSE IF name[Len(name)] = "." THEN SubSeq(name, 1, Len(name) - 1)
    ELSE DropLast(SubSeq(name, 1, Len(name) - 1))

RECURSIVE DropComponents(_, _)
\* package.rsplit('.', k)[0]
DropComponents(package, k) ==
    IF k = 0 THEN package ELSE DropComponents(DropLast(package), k - 1)

\* resolve_name joining every name, dotted or not, to the package
resolve_name_joined(name, package) ==
    LET level == LeadingDots(name)
        rest == SubSeq(name, level + 1, Len(name))
    IN  IF package = NoName THEN [raised |-> None, name |-> rest]
        ELSE IF Dots(package) + 1 < level THEN [raised |-> ImportError, name |-> <<>>]
        ELSE LET base == DropComponents(package, IF level = 0 THEN 0 ELSE level - 1) IN
             [raised |-> None,
              name |-> IF rest # <<>> THEN base \o <<".">> \o rest ELSE base]

\* importlib.util.resolve_name(name, package): the absolute name, or the
\* exception raised
resolve_name(name, package) ==
    LET level == LeadingDots(name)
        rest == SubSeq(name, level + 1, Len(name))
    IN  IF level = 0 THEN [raised |-> None, name |-> name]
        ELSE IF package = NoName THEN [raised |-> ImportError, name |-> <<>>]
        ELSE IF Dots(package) + 1 < level THEN [raised |-> ImportError, name |-> <<>>]
        ELSE LET base == DropComponents(package, level - 1) IN
             [raised |-> None,
              name |-> IF rest # <<>> THEN base \o <<".">> \o rest ELSE base]

\* importlib.import_module(name) for an absolute name: the module, or the
\* exception raised
import_module(name) ==
    CASE name = mainName -> [raised |-> None, module |-> mainModule]
      [] name = rName -> [raised |-> None, module |-> rModule]
      [] name = rsName -> [raised |-> None, module |-> rsModule]
      [] name = qName -> [raised |-> SystemExit, module |-> None]
      [] OTHER -> [raised |-> ModuleNotFoundError, module |-> None]

\* The console's fields and the modules' help bindings, as one value.
Console(mn, m, h) == [modulename |-> mn, module |-> m, helpOf |-> h]

\* add_helper with self.locals['help'] = self._helper
add_helper_overwrite(c) == [c EXCEPT !.helpOf[c.module] = helper]

\* self.locals.setdefault('help', self._helper)
add_helper(c) ==
    IF c.helpOf[c.module] = NoBinding
    THEN [c EXCEPT !.helpOf[c.module] = helper]
    ELSE c

\* remove_helper with self.locals.pop('help', None)
remove_helper_any(c) == [c EXCEPT !.helpOf[c.module] = NoBinding]

\* remove_helper that deletes nothing
remove_helper_noop(c) == c

\* if self.locals.get('help', object()) is self._helper: del self.locals['help']
remove_helper(c) ==
    IF c.helpOf[c.module] = helper
    THEN [c EXCEPT !.helpOf[c.module] = NoBinding]
    ELSE c

\* CdCommit without console.modulename = modulename
CdCommitModuleOnly(c, name, m) ==
    LET c1 == IF c.module # None THEN remove_helper(c) ELSE c
        c2 == [c1 EXCEPT !.module = m]
    IN  add_helper(c2)

\* lines 224-229 of cd: leave the old module, commit, install the helper
CdCommit(c, name, m) ==
    LET c1 == IF c.module # None THEN remove_helper(c) ELSE c
        c2 == [c1 EXCEPT !.module = m, !.modulename = name]
    IN  add_helper(c2)

\* The result of calling a handler: the console afterwards, what it printed
\* on stdout and what it raised.
HandlerResult(c, printed, exc) == [console |-> c, out |-> printed, raised |-> exc]

\* cd with the old module left before the new one is imported
cd_leave_first(c, verb, requested) ==
    LET c1 == IF c.module # None THEN remove_helper(c) ELSE c
        res == resolve_name(requested, c.modulename)
        imp == import_module(res.name)
    IN  IF res.raised # None THEN HandlerResult(c1, <<>>, res.raised)
        ELSE IF imp.raised # None THEN HandlerResult(c1, <<>>, imp.raised)
        ELSE HandlerResult(add_helper([c1 EXCEPT !.module = imp.module,
                                                 !.modulename = res.name]), <<>>, None)

\* cd(console, modulename)
cd(c, verb, requested) ==
    LET printed == IF verb
                   THEN << <<"Importing ">> \o requested
                            \o <<" and changing the current module to it">> >>
                   ELSE <<>>
        res == resolve_name(requested, c.modulename)
        imp == import_module(res.name)
    IN  IF res.raised # None THEN HandlerResult(c, printed, res.raised)
        ELSE IF imp.raised # None THEN HandlerResult(c, printed, imp.raised)
        ELSE HandlerResult(CdCommit(c, res.name, imp.module), printed, None)

(***************************************************************************)
(* _print_list, ls and pwd.                                                *)
(***************************************************************************)
\* shutil.get_terminal_size().columns
TerminalColumns == 14

Max(a, b) == IF a > b THEN a ELSE b

RECURSIVE MaxLen(_)
\* max(map(len, stringlist))
MaxLen(strings) ==
    IF strings = <<>> THEN 0 ELSE Max(Len(Head(strings)), MaxLen(Tail(strings)))

Spaces(n) == [i \in 1..n |-> " "]

\* string.ljust(width)
Ljust(string, width) == string \o Spaces(width - Len(string))

RECURSIVE Rstrip(_)
\* line.rstrip(' ')
Rstrip(line) ==
    IF line # <<>> /\ line[Len(line)] = " "
    THEN Rstrip(SubSeq(line, 1, Len(line) - 1))
    ELSE line

RECURSIVE SliceFrom(_, _, _)
\* stringlist[y::rows], with y counted from 0
SliceFrom(strings, y, rows) ==
    IF y + 1 > Len(strings) THEN <<>>
    ELSE <<strings[y + 1]>> \o SliceFrom(strings, y + rows, rows)

RECURSIVE JoinCells(_)
\* '  '.join(cells)
JoinCells(cells) ==
    IF cells = <<>> THEN <<>>
    ELSE IF Len(cells) = 1 THEN Head(cells)
    ELSE Head(cells) \o <<" ", " ">> \o JoinCells(Tail(cells))

\* CeilDiv rounding down
FloorDiv(n, columns) == n \div columns

\* math.ceil(n / columns)
CeilDiv(n, columns) == (n + columns - 1) \div columns

\* _print_list(stringlist) on a non-empty list: the lines printed
print_list(strings, termcols) ==
    LET maxlen == MaxLen(strings)
        columns == termcols \div (maxlen + 2)
    IN  IF columns < 2 THEN strings
        ELSE LET rows == CeilDiv(Len(strings), columns) IN
             [y \in 1..rows |->
                LET cells == SliceFrom(strings, y - 1, rows) IN
                Rstrip(JoinCells([i \in 1..Len(cells) |-> Ljust(cells[i], maxlen)]))]

helpName == <<"h","e","l","p">>

\* sorted(dir(module)): the module's own names, with 'help' when it is bound
SortedDir(m, binding) ==
    LET before == CASE m = mainModule -> << <<"a">>, <<"b","b">> >>
                    [] m = rModule -> << <<"f","o","o">> >>
                    [] OTHER -> <<>>
        after == CASE m = mainModule -> << <<"x">> >>
                   [] m = rModule -> << <<"s">>, <<"t","w","o">>, <<"y">> >>
                   [] OTHER -> << <<"z">> >>
    IN  before \o (IF binding # NoBinding THEN <<helpName>> ELSE <<>>) \o after

\* ls(console)
ls(c, verb) ==
    LET printed == IF verb
                   THEN << <<"Listing the variables in ">> \o c.modulename >>
                   ELSE <<>>
    IN  HandlerResult(c,
            printed \o print_list(SortedDir(c.module, c.helpOf[c.module]), TerminalColumns),
            None)

\* repr(module)
Repr(name) == <<"<", "module '">> \o name \o <<"'", ">">>

\* pwd that also goes back to __main__
pwd_home(c, verb) == cd(c, verb, mainName)

\* pwd(console)
pwd(c, verb) ==
    LET result == Repr(c.modulename)
        shown == IF Head(result) = "<" /\ result[Len(result)] = ">"
                 THEN SubSeq(result, 2, Len(result) - 1)
                 ELSE result
    IN  HandlerResult(c,
            << (IF verb THEN <<"You are currently in", " ">> ELSE <<>>) \o shown >>,
            None)

\* What the body of a handler of the using program may do: return, or raise.
UserOutcomes == {None, Exception, SystemExit, KeyboardInterrupt}

\* cdDefault as modulename='.', the current module
cdDefaultDot == <<".">>

\* the default of cd's parameter: modulename='__main__'
cdDefault == mainName

\* self.commands[commandname].func(self, *args), the arguments having passed
\* _check_args; outcome is what a handler of the using program does
CallHandler(func, c, verb, args, outcome) ==
    CASE func = "cd" -> cd(c, verb, IF args = <<>> THEN cdDefault ELSE args[1])
      [] func = "ls" -> ls(c, verb)
      [] func = "pwd" -> pwd(c, verb)
      [] OTHER -> HandlerResult(c, <<>>, outcome)

\* run_command(commandname, args) on a console of class cls
run_command(cmds, cls, c, verb, commandname, args, outcome) ==
    CallHandler(Lookup(cmds, cls, commandname).func, c, verb, args, outcome)

(***************************************************************************)
(* The read loop: raw_input, called by InteractiveConsole.interact.        *)
(***************************************************************************)
\* The lines typed in a session:
\*   cd, cd r, cd .s, cd s, cd .., cd ., cd q, cd no, cd __main__, cd r x,
\*   cd 'r (a quotation left open), cd  'r'.s (two spaces, quotes), ls, ls x,
\*   pwd, go, go x, go x y, go x y z, fr x y, the empty line, x
Lines ==
    {<<"c", "d">>,
     <<"c", "d", " ", "r">>,
     <<"c", "d", " ", ".", "s">>,
     <<"c", "d", " ", "s">>,
     <<"c", "d", " ", ".", ".">>,
     <<"c", "d", " ", ".">>,
     <<"c", "d", " ", "q">>,
     <<"c", "d", " ", "n", "o">>,
     <<"c", "d", " ", "__main__">>,
     <<"c", "d", " ", "r", " ", "x">>,
     <<"c", "d", " ", "'", "r">>,
     <<"c", "d", " ", " ", "'", "r", "'", ".", "s">>,
     <<"l", "s">>,
     <<"l", "s", " ", "x">>,
     <<"p", "w", "d">>,
     <<"g", "o">>,
     <<"g", "o", " ", "x">>,
     <<"g", "o", " ", "x", " ", "y">>,
     <<"g", "o", " ", "x", " ", "y", " ", "z">>,
     <<"f", "r", " ", "x", " ", "y">>,
     <<>>,
     <<"x">>}

\* the lines typed at the continuation prompt: cd r, x
ContinuationLines == {<<"c", "d", " ", "r">>, <<"x">>}

\* the module debug() is started in: __main__, r, r.s or a missing one
StartModules == {mainName, rName, rsName, <<"n", "o">>}

RECURSIVE JoinWords(_)
\* ' '.join(tokens)
JoinWords(tokens) ==
    IF tokens = <<>> THEN <<>>
    ELSE IF Len(tokens) = 1 THEN Head(tokens)
    ELSE Head(tokens) \o <<" ">> \o JoinWords(Tail(tokens))

\* NotSpecial returning the tokens joined again
NotSpecialJoined(string, tokens) == JoinWords(tokens)

\* Caught with 'except ImportError'
CaughtImportError(exc) == exc \in {ImportError, ModuleNotFoundError}

\* line 155: what raw_input returns for a line that is no special command
NotSpecial(string, tokens) == string

\* line 159: whether the loop catches what run_command raised
Caught(exc) == IsException(exc)

\* One step of the read loop, as a record: what kind of step it was, the
\* console afterwards, what was printed, which handler ran, what it raised
\* and what raw_input returned.
Step(kind, c, printed, errors, ran, exc, string) ==
    [kind |-> kind, console |-> c, out |-> printed, err |-> errors,
     ran |-> ran, raised |-> exc, returned |-> string]

\* lines 148-162: one pass of the while loop on the line read
raw_input(cmds, cls, c, verb, string, outcome) ==
    LET sp == shlex_split(string) IN
    IF sp.raised # None \/ sp.tokens = <<>>
    THEN Step("returned", c, <<>>, <<>>, None, None, NotSpecial(string, sp.tokens))
    ELSE
    LET commandname == Head(sp.tokens)
        args == Tail(sp.tokens)
        chk == check_args(cmds, cls, commandname, args)
    IN  IF chk.raised # None
        THEN Step("returned", c, <<>>, <<>>, None, None, NotSpecial(string, sp.tokens))
        ELSE IF ~chk.ok
        THEN Step("usage", c, chk.out, chk.err, None, None, <<>>)
        ELSE
        LET r == run_command(cmds, cls, c, verb, commandname, args, outcome)
            func == Lookup(cmds, cls, commandname).func
        IN  IF r.raised = None
            THEN Step("ran", r.console, r.out, <<>>, func, None, <<>>)
            ELSE IF Caught(r.raised)
            THEN Step("ran", r.console, r.out,
                      << <<"An exception occurred while running ">> \o commandname \o <<"!">>,
                         <<"Traceback (most recent call last): ", r.raised>> >>,
                      func, r.raised, <<>>)
            ELSE Step("propagated", r.console, r.out, <<>>, func, r.raised, <<>>)

\* What the last step was: its kind, the class it concerned, console.module
\* before it, the line read (or the name given), the handler that ran, what
\* was raised and what raw_input returned; for a registration, the function
\* the class's own mapping held under the name before.
Last(kind, cls, from, string, ran, exc, returned) ==
    [kind |-> kind, on |-> cls, from |-> from, line |-> string, ran |-> ran,
     raised |-> exc, returned |-> returned, replaced |-> None]

\* the class of the console debug() creates (line 260)
ConsoleClass == DebugConsole

\* the console as one value
TheConsole == Console(modulename, module, helpOf)

SetConsole(c) ==
    /\ modulename' = c.modulename
    /\ module' = c.module
    /\ helpOf' = c.helpOf

(***************************************************************************)
(* The state machine.                                                      *)
(***************************************************************************)
NoStep == Last("none", None, None, <<>>, None, None, <<>>)

\* After the import of bananadbg: the built-in commands are registered, no
\* console exists, and a module may hold a help variable of its own.
Init ==
    /\ commands = InitialCommands
    /\ regError = None
    /\ pc = "setup"
    /\ verbose = FALSE
    /\ modulename = NoName
    /\ module = None
    /\ helpOf \in [Modules -> {NoBinding, userValue}]
    /\ out = <<>>
    /\ err = <<>>
    /\ last = NoStep
    /\ consoleclass = None
    /\ stringlist = <<>>
    /\ termwidth = TerminalColumns

\* The using program registers a handler on a class, before any session.
RegisterCommand(cls, func) ==
    /\ pc = "setup"
    /\ Register(cls, func)
    /\ last' = [Last("registered", cls, module, func.name, None, regError', <<>>)
                   EXCEPT !.replaced = IF commands[cls].has
                                       THEN MapGet(commands[cls].own, func.name).func
                                       ELSE NoCmd.func]
    /\ UNCHANGED <<pc, verbose, modulename, module, helpOf, out, err, consoleclass, listVars>>

\* debug(module=m, consoleclass=cc, verbose=v): lines 256-262 up to the
\* first prompt
StartDebug(m, v, cc) ==
    /\ pc = "setup"
    /\ LET r == run_command(commands, ConsoleClass, Console(NoName, None, helpOf),
                            v, cdName, <<m>>, None)
       IN  /\ SetConsole(r.console)
           /\ out' = << <<"Starting a debugging session in module ", "'">> \o m
                            \o <<"'", " on Python ", "sys.version_info[:3]">>,
                        <<"Type 'help' for more info.">> >> \o r.out
           /\ pc' = IF r.raised = None THEN "prompt" ELSE "aborted"
           /\ last' = Last("start", ConsoleClass, None, m,
                           Lookup(commands, ConsoleClass, cdName).func,
                           r.raised, <<>>)
    /\ verbose' = v
    /\ consoleclass' = cc
    /\ err' = <<>>
    /\ UNCHANGED <<regVars, listVars>>

\* raw_input(sys.ps1): a line is read at the primary prompt.  A
\* KeyboardInterrupt that leaves raw_input is caught by interact(), which
\* prompts again; any other exception that leaves it ends debug().
ReadLine(string, outcome) ==
    /\ pc = "prompt"
    /\ LET st == raw_input(commands, ConsoleClass, TheConsole, verbose, string, outcome)
       IN  /\ SetConsole(st.console)
           /\ out' = st.out
           /\ err' = IF st.raised = KeyboardInterrupt /\ st.kind = "propagated"
                     THEN <<<<"KeyboardInterrupt">>>> ELSE st.err
           /\ pc' = CASE st.kind = "returned" -> "eval"
                      [] st.kind = "propagated" /\ st.raised # KeyboardInterrupt -> "aborted"
                      [] OTHER -> "prompt"
           /\ last' = Last(st.kind, ConsoleClass, module, string, st.ran, st.raised, st.returned)
    /\ UNCHANGED <<regVars, verbose, consoleclass, listVars>>

\* ReadContinuation without the test of the prompt: the line goes through
\* the loop of the primary prompt
ReadContinuationDispatched(string) ==
    /\ pc = "more"
    /\ LET st == raw_input(commands, ConsoleClass, TheConsole, verbose, string, None)
       IN  /\ SetConsole(st.console)
           /\ out' = st.out
           /\ err' = st.err
           /\ pc' = IF st.kind = "returned" THEN "eval" ELSE "prompt"
           /\ last' = Last(st.kind, ConsoleClass, module, string, st.ran, st.raised, st.returned)
    /\ UNCHANGED <<regVars, verbose, consoleclass, listVars>>

\* raw_input(sys.ps2): lines 144-146
ReadContinuation(string) ==
    /\ pc = "more"
    /\ pc' = "eval"
    /\ out' = <<>>
    /\ err' = <<>>
    /\ last' = Last("continued", ConsoleClass, module, string, None, None, string)
    /\ UNCHANGED <<regVars, verbose, modulename, module, helpOf, consoleclass, listVars>>

\* what the evaluated code does to the name help: nothing, del help, help = ...
EvalEffects == {"keep", NoBinding, userValue}

\* The evaluator runs what raw_input returned in console.locals, the current
\* module's namespace: the code may bind or delete help there, and the
\* input may be incomplete.
Evaluate(effect, more) ==
    /\ pc = "eval"
    /\ helpOf' = IF effect = "keep" THEN helpOf ELSE [helpOf EXCEPT ![module] = effect]
    /\ pc' = IF more THEN "more" ELSE "prompt"
    /\ out' = <<>>
    /\ err' = <<>>
    /\ last' = Last("evaluated", ConsoleClass, module, last.returned, None, None, <<>>)
    /\ UNCHANGED <<regVars, verbose, modulename, module, consoleclass, listVars>>

\* input() raises EOFError: interact() returns and debug() finishes
\* (lines 263-264)
EndOfInput ==
    /\ pc \in {"prompt", "more"}
    /\ pc' = "done"
    /\ SetConsole(remove_helper(TheConsole))
    /\ out' = << <<"Exiting the debugging session.">> >>
    /\ err' = <<>>
    /\ last' = Last("eof", ConsoleClass, module, <<>>, None, EOFError, <<>>)
    /\ UNCHANGED <<regVars, verbose, consoleclass, listVars>>

\* the handlers the using program registers on DebugConsole before a session
SessionFuncs == {goFunc}

Next ==
    \/ \E f \in SessionFuncs : RegisterCommand(DebugConsole, f)
    \/ \E m \in StartModules, v \in BOOLEAN : StartDebug(m, v, DebugConsole)
    \/ \E string \in Lines, outcome \in UserOutcomes : ReadLine(string, outcome)
    \/ \E string \in ContinuationLines : ReadContinuation(string)
    \/ \E effect \in EvalEffects, more \in BOOLEAN : Evaluate(effect, more)
    \/ EndOfInput

Spec == Init /\ [][Next]_vars

\* The registry alone: any class is given any handler, in any order.
NextReg == \E cls \in Classes, func \in UserFuncs : RegisterCommand(cls, func)

SpecReg == Init /\ [][NextReg]_vars

\* _print_list alone, on any sorted list of names and any terminal width.
\* the widest terminal considered
MaxWidth == 28

\* the names a module may hold, as sorted() orders them
NamePool ==
    << <<"a">>, <<"a", "l", "p", "h", "a">>, <<"b">>, <<"c", "c">>,
       <<"d", "e", "l", "t", "a">>, <<"e">>, <<"g", "a", "m", "m", "a">> >>

RECURSIVE Pick(_, _)
\* the names of the pool at the indices chosen, from index i on, in order
Pick(chosen, i) ==
    IF i > Len(NamePool) THEN <<>>
    ELSE (IF i \in chosen THEN <<NamePool[i]>> ELSE <<>>) \o Pick(chosen, i + 1)

\* sorted(dir(module)) for the modules considered: non-empty, sorted, distinct
NameLists == {Pick(chosen, 1) : chosen \in (SUBSET (1..Len(NamePool))) \ {{}}}

InitList ==
    /\ commands = InitialCommands
    /\ regError = None
    /\ pc = "list"
    /\ verbose = FALSE
    /\ modulename = NoName
    /\ module = None
    /\ helpOf = [m \in Modules |-> NoBinding]
    /\ out = <<>>
    /\ err = <<>>
    /\ last = NoStep
    /\ consoleclass = None
    /\ stringlist \in NameLists
    /\ termwidth \in 1..MaxWidth

\* _print_list(stringlist) on a terminal of termwidth columns
PrintList ==
    /\ pc = "list"
    /\ pc' = "listed"
    /\ out' = print_list(stringlist, termwidth)
    /\ last' = Last("listed", None, None, <<>>, None, None, <<>>)
    /\ UNCHANGED <<regVars, verbose, modulename, module, helpOf, err, consoleclass, listVars>>

NextList == PrintList

SpecList == InitList /\ [][NextList]_vars

\* A session given a console class: the using program registers go on
\* DebugConsole or on its subclass Mid, then calls debug(consoleclass=...).
SessionClasses == {DebugConsole, Mid}

\* the lines typed in such a session: go x, go, pwd, cd r, x
SessionLines ==
    {<<"g", "o", " ", "x">>, <<"g", "o">>, <<"p", "w", "d">>,
     <<"c", "d", " ", "r">>, <<"x">>}

NextSub ==
    \/ \E cls \in SessionClasses, f \in SessionFuncs : RegisterCommand(cls, f)
    \/ \E cc \in SessionClasses, v \in BOOLEAN : StartDebug(mainName, v, cc)
    \/ \E string \in SessionLines, outcome \in UserOutcomes : ReadLine(string, outcome)
    \/ \E string \in ContinuationLines : ReadContinuation(string)
    \/ \E effect \in EvalEffects, more \in BOOLEAN : Evaluate(effect, more)
    \/ EndOfInput

SpecSub == Init /\ [][NextSub]_vars

(***************************************************************************)
(* Properties.                                                             *)
(***************************************************************************)
\* the last step was a pass of the read loop on a line of the primary prompt
InLoop == last.kind \in {"returned", "usage", "ran", "propagated"}

\* name is a key of cls.commands
Registered(cls, name) == Lookup(commands, cls, name) # KeyError

RECURSIVE QuoteCount(_)
\* the number of quote characters in a line
QuoteCount(string) ==
    IF string = <<>> THEN 0
    ELSE (IF Head(string) = "'" THEN 1 ELSE 0) + QuoteCount(Tail(string))

\* the lines the last step printed, on either stream
Printed == out \o err

\* C1: a cd that fails in name resolution or in the import leaves
\* console.modulename, console.module and every module's help binding as
\* they were, whether it was run from the read loop or by debug().
C1_CdAtomic ==
    [][(/\ last'.kind \in {"ran", "propagated", "start"}
        /\ last'.ran = "cd"
        /\ last'.raised # None)
       => (modulename' = modulename /\ module' = module /\ helpOf' = helpOf)]_vars

\* a cd typed in module r, where the helper is installed, failed in the import
C1_Witness ==
    /\ last.kind = "ran" /\ last.ran = "cd" /\ last.raised = ModuleNotFoundError
    /\ module = rModule /\ helpOf[rModule] = helper

C3_Fallback ==
    InLoop =>
        LET sp == shlex_split(last.line) IN
        (\/ QuoteCount(last.line) % 2 = 1
         \/ sp.tokens = <<>>
         \/ ~Registered(ConsoleClass, Head(sp.tokens)))
        => /\ last.kind = "returned"
           /\ last.returned = last.line
           /\ last.ran = None
           /\ Printed = <<>>
           /\ pc = "eval"

\* the line with the open quotation was handed to the evaluator
C3_Witness ==
    /\ last.kind = "returned"
    /\ last.line = <<"c", "d", " ", "'", "r">>
    /\ pc = "eval"

\* C4: when the first token is a registered command and the number of
\* arguments is out of range, the usage is printed, no handler runs, nothing
\* is returned to the evaluator, console.modulename and console.module stay
\* and the loop reads the next line.
C4_UsageFailure ==
    [][(LET sp == shlex_split(last'.line) IN
        /\ last'.kind \in {"returned", "usage", "ran", "propagated"}
        /\ sp.raised = None /\ sp.tokens # <<>>
        /\ Registered(ConsoleClass, Head(sp.tokens))
        /\ LET command == Lookup(commands, ConsoleClass, Head(sp.tokens))
               n == Len(sp.tokens) - 1
           IN  n < Len(command.reqargs) \/ n > Len(command.reqargs) + Len(command.optargs))
       => (/\ last'.kind = "usage"
           /\ last'.ran = None
           /\ last'.returned = <<>>
           /\ \E i \in 1..Len(out' \o err') : (out' \o err')[i][1] = "Usage:"
           /\ modulename' = modulename /\ module' = module /\ helpOf' = helpOf
           /\ pc' = "prompt")]_vars

\* cd r x was typed in module r: too many arguments
C4_Witness ==
    /\ last.kind = "usage"
    /\ last.line = <<"c", "d", " ", "r", " ", "x">>
    /\ module = rModule /\ pc = "prompt"

RECURSIVE Flatten(_)
\* the concatenation of a sequence of strings
Flatten(strings) ==
    IF strings = <<>> THEN <<>> ELSE Head(strings) \o Flatten(Tail(strings))

\* The usage line of a command: 'Usage:', the name, each required name in
\* upper case, each optional name in upper case and brackets.
UsageOf(name, command) ==
    <<"Usage:", " ">> \o name
      \o Flatten([i \in 1..Len(command.reqargs) |-> <<" ">> \o Upper(command.reqargs[i])])
      \o Flatten([i \in 1..Len(command.optargs) |->
                    <<" ", "[">> \o Upper(command.optargs[i]) \o <<"]">>])

\* C5: for a registered command, the arguments pass exactly when their
\* number is between len(reqargs) and len(reqargs) + len(optargs); when they
\* do not pass, no handler runs and the usage line is printed: the name, the
\* required names upper-cased, the optional names upper-cased in brackets,
\* in the order of declaration.  For go(console, to, by='x') the line is
\* 'Usage: go TO [BY]'.
C5_Validate ==
    LET sp == shlex_split(last.line) IN
    (/\ InLoop
     /\ sp.raised = None /\ sp.tokens # <<>>
     /\ Registered(ConsoleClass, Head(sp.tokens)))
    => LET name == Head(sp.tokens)
           command == Lookup(commands, ConsoleClass, name)
           n == Len(sp.tokens) - 1
           fits == Len(command.reqargs) <= n
                     /\ n <= Len(command.reqargs) + Len(command.optargs)
       IN  /\ fits <=> last.kind \in {"ran", "propagated"}
           /\ ~fits => /\ last.kind = "usage"
                       /\ last.ran = None
                       /\ \E i \in 1..Len(Printed) : Printed[i] = UsageOf(name, command)
           /\ (~fits /\ name = goName)
                 => \E i \in 1..Len(Printed) :
                       Printed[i] = <<"Usage:", " ", "g", "o", " ", "T", "O",
                                      " ", "[", "B", "Y", "]">>

\* go was typed without its required argument
C5_Witness ==
    /\ last.kind = "usage"
    /\ last.line = goName
    /\ Len(Lookup(commands, ConsoleClass, goName).reqargs) = 1

\* C6: on an argument-count failure nothing is printed on stdout; the
\* usage line is on stderr.
C6_UsageOnStderr ==
    last.kind = "usage" => out = <<>>

\* the proper ancestors of a class
Ancestors(cls) ==
    CASE cls = Leaf -> {Mid, DebugConsole} [] cls = Mid -> {DebugConsole} [] OTHER -> {}

\* C7: a call of command() on a class, accepted or rejected, leaves
\* commands[name] for every name, and the listing, of each of its ancestors
\* as they were.
C7_AncestorsUnchanged ==
    [][last'.kind = "registered"
       => \A anc \in Ancestors(last'.on) :
             /\ \A n \in CommandNames :
                   Lookup(commands', anc, n) = Lookup(commands, anc, n)
             /\ AllOf(commands', anc) = AllOf(commands, anc)]_vars

\* Leaf was given a go of its own while Mid has another and DebugConsole none
C7_Witness ==
    /\ last.kind = "registered" /\ last.on = Leaf /\ regError = None
    /\ Lookup(commands, Leaf, goName).func = "go2"
    /\ Lookup(commands, Mid, goName).func = "go"
    /\ Lookup(commands, DebugConsole, goName) = KeyError

RECURSIVE NearestRegistered(_, _)
\* the descriptor of the nearest class, from cls upwards, that registered name
NearestRegistered(cls, name) ==
    IF cls = None THEN KeyError
    ELSE IF commands[cls].has /\ MapGet(commands[cls].own, name) # NoCmd
         THEN commands[cls].own[name]
         ELSE NearestRegistered(BaseOf(cls), name)

\* C8: after any order of registrations, commands[name] on a class is the
\* class's own descriptor if it registered the name, else that of its
\* nearest ancestor that registered it.
C8_LayeringTransparent ==
    \A cls \in Classes, n \in CommandNames :
        Lookup(commands, cls, n) = NearestRegistered(cls, n)

\* a cd from the read loop that succeeded
CdSucceeded == last.kind = "ran" /\ last.ran = "cd" /\ last.raised = None

\* C9: when a successful cd leaves a module, a help there that is not the
\* console's helper stays bound as it was; the helper is removed from the
\* module left; no other module's help is touched.
C9_OnlyOwnHelperRemoved ==
    [][CdSucceeded'
       => /\ helpOf[module] = userValue => helpOf'[module] = userValue
          /\ (helpOf'[module] = NoBinding /\ helpOf[module] # NoBinding)
                => helpOf[module] = helper
          /\ (helpOf[module] = helper /\ module' # module)
                => helpOf'[module] = NoBinding
          /\ \A m \in Modules \ {module, module'} : helpOf'[m] = helpOf[m]]_vars

\* a cd left a module in which help was bound by the user, and it still is
C9_Witness ==
    /\ CdSucceeded
    /\ last.from # module
    /\ helpOf[last.from] = userValue

\* C10: a successful cd binds help to the helper in the new module when help
\* is not bound there, and leaves any binding that exists there; a
\* successful cd to the current module leaves the helper bound there when it
\* was, or when help was not bound.
C10_HelperInstalled ==
    [][(/\ last'.kind \in {"ran", "start"}
        /\ last'.ran = "cd"
        /\ last'.raised = None)
       => IF module' # module
          THEN /\ helpOf[module'] = NoBinding => helpOf'[module'] = helper
               /\ helpOf[module'] # NoBinding => helpOf'[module'] = helpOf[module']
          ELSE /\ helpOf[module] \in {NoBinding, helper} => helpOf'[module] = helper
               /\ helpOf[module] = userValue => helpOf'[module] = userValue]_vars

\* a cd to the current module, where the helper is bound again
C10_Witness ==
    /\ CdSucceeded
    /\ last.from = module
    /\ helpOf[module] = helper

\* C11: a line read at the continuation prompt is returned to the evaluator
\* as it was typed, also when its first token is a registered command: no
\* handler runs, nothing is printed and the console is not touched.
C11_ContinuationVerbatim ==
    [][(pc = "more" /\ pc' # "done")
       => (/\ last'.kind = "continued"
           /\ last'.returned = last'.line
           /\ last'.ran = None
           /\ pc' = "eval"
           /\ out' = <<>> /\ err' = <<>>
           /\ modulename' = modulename /\ module' = module /\ helpOf' = helpOf)]_vars

\* cd r was typed at the continuation prompt outside r, and r is not current
C11_Witness ==
    /\ last.kind = "continued"
    /\ last.line = <<"c", "d", " ", "r">>
    /\ last.returned = <<"c", "d", " ", "r">>
    /\ module # rModule
    /\ pc = "eval"

\* C12: cd typed without an argument succeeds from every module and leaves
\* console.modulename '__main__' and console.module the module __main__.
C12_CdHome ==
    (last.kind \in {"ran", "propagated"} /\ last.line = cdName)
    => /\ last.kind = "ran" /\ last.ran = "cd" /\ last.raised = None
       /\ modulename = mainName
       /\ module = mainModule

\* cd was typed in r.s
C12_Witness ==
    /\ last.kind = "ran" /\ last.line = cdName /\ last.from = rsModule
    /\ modulename = mainName

\* C13, as stated: in module r, cd s, where r.s can be imported, makes
\* console.modulename 'r.s'.
C13_BareNameRelative ==
    (/\ last.kind \in {"ran", "propagated"}
     /\ last.line = <<"c", "d", " ", "s">>
     /\ last.from = rModule)
    => modulename = rsName

\* C13, amended: in module r, cd .s makes console.modulename 'r.s' and
\* console.module the module r.s; after a successful cd with a name that
\* does not start with a dot, console.modulename is that name as typed.
C13_DottedNameRelative ==
    /\ (/\ last.kind \in {"ran", "propagated"}
        /\ last.line = <<"c", "d", " ", ".", "s">>
        /\ last.from = rModule)
       => (last.raised = None /\ modulename = rsName /\ module = rsModule)
    /\ LET sp == shlex_split(last.line) IN
       (/\ last.kind = "ran" /\ last.ran = "cd" /\ last.raised = None
        /\ Len(sp.tokens) = 2
        /\ Head(sp.tokens[2]) # ".")
       => modulename = sp.tokens[2]

\* cd .s was typed in r
C13_Witness ==
    /\ last.kind = "ran"
    /\ last.line = <<"c", "d", " ", ".", "s">>
    /\ last.from = rModule
    /\ modulename = rsName

\* C14: whenever a prompt is shown or a line is being evaluated,
\* console.module is a module and console.modulename is an absolute name
\* whose import gives that module; the first prompt is shown exactly when
\* the cd that debug() runs has succeeded, and otherwise debug() ends with
\* no module set.
C14_PromptHasModule ==
    /\ pc \in {"prompt", "more", "eval"}
          => /\ module \in Modules
             /\ modulename # NoName
             /\ LeadingDots(modulename) = 0
             /\ import_module(modulename) = [raised |-> None, module |-> module]
    /\ last.kind = "start"
          => /\ (pc = "prompt") <=> (last.raised = None)
             /\ last.raised # None => (pc = "aborted" /\ module = None)

\* the prompt after cd .s typed in r
C14_Witness ==
    /\ pc = "prompt"
    /\ last.kind = "ran" /\ last.ran = "cd" /\ last.raised = None
    /\ last.line = <<"c", "d", " ", ".", "s">>
    /\ module = rsModule

\* C15: the console's helper is bound as help in no module other than the
\* current one, whatever cd commands succeeded or failed; after the read
\* loop has ended and debug() has returned it is bound in no module.
C15_HelperExclusive ==
    /\ \A m \in Modules : helpOf[m] = helper => m = module
    /\ pc = "done" => \A m \in Modules : helpOf[m] # helper

\* cd .s typed in r moved the helper from r to r.s
C15_Witness ==
    /\ last.kind = "ran" /\ last.ran = "cd" /\ last.raised = None
    /\ last.from = rModule /\ module = rsModule
    /\ helpOf[rsModule] = helper /\ helpOf[rModule] # helper

\* C16: a step of the read loop in which ls or pwd ran, the usage was
\* printed, or the line was handed to the evaluator (at either prompt)
\* leaves console.modulename and console.module as they were; a step of the
\* session that changes either of them is a cd that returned.
C16_OnlyCdNavigates ==
    [][/\ (\/ last'.kind \in {"usage", "returned", "continued"}
           \/ (last'.kind \in {"ran", "propagated"} /\ last'.ran \in {"ls", "pwd"}))
          => (modulename' = modulename /\ module' = module)
       /\ (pc # "setup" /\ (modulename' # modulename \/ module' # module))
          => (last'.kind = "ran" /\ last'.ran = "cd" /\ last'.raised = None)]_vars

\* pwd ran in r.s and the console is still there
C16_Witness ==
    /\ last.kind = "ran" /\ last.ran = "pwd" /\ last.raised = None
    /\ last.from = rsModule /\ module = rsModule /\ modulename = rsName
    /\ out # <<>>

\* C17: with w the length of the longest name and columns = width div
\* (w + 2), a list of n names printed with columns >= 2 gives
\* ceil(n / columns) lines; name i (from 0) stands in line i mod rows at
\* offset (i div rows) * (w + 2), every other character of a line is a
\* space, and no line ends in a space; with columns < 2 the lines are the
\* names, in order.
C17_ColumnMajor ==
    pc = "listed" =>
    LET n == Len(stringlist)
        w == CHOOSE k \in 0..MaxWidth :
                 /\ \A i \in 1..n : Len(stringlist[i]) <= k
                 /\ \E i \in 1..n : Len(stringlist[i]) = k
        columns == termwidth \div (w + 2)
    IN  IF columns < 2 THEN out = stringlist
        ELSE
        LET rows == CHOOSE r \in 1..n : r * columns >= n /\ (r - 1) * columns < n
            InRow(y) == {i \in 0..(n - 1) : i % rows = y - 1}
            From(i) == (i \div rows) * (w + 2)
        IN  /\ Len(out) = rows
            /\ \A y \in 1..rows :
                  /\ out[y] # <<>>
                  /\ out[y][Len(out[y])] # " "
                  /\ \A i \in InRow(y) :
                        /\ Len(out[y]) >= From(i) + Len(stringlist[i + 1])
                        /\ SubSeq(out[y], From(i) + 1, From(i) + Len(stringlist[i + 1]))
                               = stringlist[i + 1]
                  /\ \A k \in 1..Len(out[y]) :
                        out[y][k] # " "
                        => \E i \in InRow(y) :
                               k > From(i) /\ k <= From(i) + Len(stringlist[i + 1])

\* alpha, b, delta, e, gamma on 14 columns: three lines, the first of them
\* "alpha  e" with the padding of e removed
C17_Witness ==
    /\ pc = "listed"
    /\ stringlist = <<NamePool[2], NamePool[3], NamePool[5], NamePool[6], NamePool[7]>>
    /\ termwidth = 14
    /\ Len(out) = 3
    /\ out[1] = <<"a", "l", "p", "h", "a", " ", " ", "e">>
    /\ out[3] = <<"d", "e", "l", "t", "a">>

\* the names of the functions that have, after the console parameter, a
\* parameter that is not POSITIONAL_OR_KEYWORD
UnsupportedNames ==
    {f.name : f \in {g \in UserFuncs :
        \E i \in 2..Len(g.params) : g.params[i].kind # POSITIONAL_OR_KEYWORD}}

\* C18: a call of command() with a function that has a variadic or
\* keyword-only parameter raises TypeError, and afterwards commands[name]
\* on the class and on each of its ancestors is, for every name, what it
\* was before the call; the function's name is no key of the class.
C18_RejectedAddsNothing ==
    [][(last'.kind = "registered" /\ last'.line \in UnsupportedNames)
       => /\ regError' = TypeError
          /\ last'.raised = TypeError
          /\ \A c \in {last'.on} \cup Ancestors(last'.on), n \in CommandNames :
                Lookup(commands', c, n) = Lookup(commands, c, n)
          /\ Lookup(commands', last'.on, last'.line) = KeyError]_vars

\* def kw(console, a, *, b) was given to Leaf and rejected; Leaf still finds
\* the go that Mid registered
C18_Witness ==
    /\ last.kind = "registered" /\ last.on = Leaf /\ last.line = kwName
    /\ regError = TypeError
    /\ Lookup(commands, Leaf, kwName) = KeyError
    /\ Lookup(commands, Mid, goName) # KeyError
    /\ Lookup(commands, Leaf, goName) = Lookup(commands, Mid, goName)

\* C19: a call of command() on a class whose own mapping already holds the
\* function's name, with a function of a supported signature, raises
\* nothing; afterwards commands[name] on the class is the Command of the
\* function just given, and sorted(commands.items()) has one item under
\* the name, that Command.
C19_LastRegistrationWins ==
    [][\A cls \in Classes, f \in UserFuncs :
          (/\ RegisterCommand(cls, f)
           /\ commands[cls].has
           /\ MapGet(commands[cls].own, f.name) # NoCmd
           /\ f.name \notin UnsupportedNames)
          => /\ regError' = None
             /\ Lookup(commands', cls, f.name).func = f.id
             /\ LET items == Items(commands', cls)
                    at == {i \in 1..Len(items) : items[i][1] = f.name}
                IN  /\ Cardinality(at) = 1
                    /\ \A i \in at : items[i][2].func = f.id]_vars

\* Mid had registered def go(console, to, by='x') and now registers def
\* go(console): the second one is found, by Mid and in its listing
C19_Witness ==
    /\ last.kind = "registered" /\ last.on = Mid /\ last.line = goName
    /\ last.replaced = "go"
    /\ regError = None
    /\ Lookup(commands, Mid, goName).func = "go2"
    /\ \E i \in 1..Len(Items(commands, Mid)) :
          Items(commands, Mid)[i] = <<goName, Lookup(commands, Mid, goName)>>

\* C20: in a session started with debug(consoleclass=cc), a line read at
\* the primary prompt whose first word is a key of cc.commands, with a
\* number of arguments the command takes, runs that command of cc.
C20_DerivedConsoleDispatches ==
    (InLoop /\ consoleclass \in Classes)
    => LET sp == shlex_split(last.line) IN
       (/\ sp.raised = None
        /\ sp.tokens # <<>>
        /\ Lookup(commands, consoleclass, Head(sp.tokens)) # KeyError
        /\ ArgsFit(Lookup(commands, consoleclass, Head(sp.tokens)), Tail(sp.tokens)))
       => /\ last.kind \in {"ran", "propagated"}
          /\ last.ran = Lookup(commands, consoleclass, Head(sp.tokens)).func

====
